---- MODULE Spec2Model ----
(***************************************************************************)
(* Questions API (src/main.py): the startup duplicate collapser, the       *)
(* create / delete / count handlers and the three matchers, over a model   *)
(* of the "questions" collection.                                          *)
(*                                                                         *)
(* A text is a sequence of one-character strings, so that str.split() and  *)
(* str.lower() are computed and not assumed.  An ObjectId is a natural     *)
(* number handed out by nextId; its string form is <<"oid", n>>.           *)
(* Similarities and text scores are fixed-point: a similarity in units of  *)
(* 0.00001 (0.7 is 70000), a textScore in tenths (2.5 is 25).              *)
(***************************************************************************)
EXTENDS Integers, Sequences, FiniteSets, TLC

VARIABLES
    store,        \* the questions collection, in natural (insertion) order
    nextId,       \* the next ObjectId / created_at the store hands out
    pc,           \* process position: "startup" | "collapsing" | "serving" | "failed"
    pending,      \* group documents the aggregation cursor has still to yield
    resp,         \* the response of the last request handler that ran
    lastReq,      \* the input of that handler (text, id string, collaborator results)
    startStore,   \* history: the collection when the current process started
    cleanStore,   \* history: the collection as the last completed collapser run left it
    deleteCalls,  \* history: delete_many calls the current startup has completed
    runs,         \* history: completed collapser runs
    served,       \* history: requests the current process has handled
    startupError, \* history: the current startup raised
    cleanRuns     \* history: completed runs since a request last changed the collection

vars == <<store, nextId, pc, pending, resp, lastReq, startStore, cleanStore,
          deleteCalls, runs, served, startupError, cleanRuns>>

(***************************************************************************)
(* Bounds                                                                  *)
(***************************************************************************)
MaxStore == 4       \* records in the initial corpus
MaxRequests == 1    \* requests handled by one process
MaxRuns == 2        \* completed collapser runs
MaxScan == 2        \* records in the corpus a matcher scans (SpecMatch)

(***************************************************************************)
(* Texts                                                                   *)
(***************************************************************************)
BlackHole == <<"W", "h", " ", "b", "h", "?">>
HowForm   == <<"H", "o", "w", " ", "b", "h">>
AlphaBeta == <<"A", " ", "B">>
BetaGamma == <<"b", " ", "c">>
GammaDelta == <<"c", "\t", " ", "d">>
Blank     == <<" ">>
Empty     == <<>>

CorpusTexts == {BlackHole, HowForm}
Texts == {BlackHole, HowForm, AlphaBeta, BetaGamma, GammaDelta, Blank, Empty}

NoResp == [kind |-> "none", status |-> 0, items |-> <<>>, count |-> 0]
NoReq == [text |-> Empty, id |-> <<"oid", 0>>, sim |-> <<>>, hits |-> <<>>]

(***************************************************************************)
(* Store primitives                                                        *)
(***************************************************************************)
Range(s) == {s[i] : i \in 1..Len(s)}

Ids(s) == {s[i].id : i \in 1..Len(s)}

TextsOf(s) == {s[i].text : i \in 1..Len(s)}

IdsWithText(s, t) == {s[i].id : i \in {j \in 1..Len(s) : s[j].text = t}}

RECURSIVE Without(_, _)
\* delete_many({"_id": {"$in": ids}}): the collection without those records
Without(s, ids) ==
    IF s = <<>> THEN <<>>
    ELSE IF Head(s).id \in ids THEN Without(Tail(s), ids)
         ELSE <<Head(s)>> \o Without(Tail(s), ids)

\* insert_one(question_data)
Inserted(s, id, text) ==
    Append(s, [id |-> id, text |-> text, created_at |-> id])

\* A corpus of n records inserted one after the other
Corpus(texts) ==
    [i \in 1..Len(texts) |-> [id |-> i, text |-> texts[i], created_at |-> i]]

SeqsUpTo(S, n) == UNION {[1..k -> S] : k \in 0..n}

(***************************************************************************)
(* startup_db_client: the aggregation pipeline and the deletions           *)
(***************************************************************************)
MatchStageAll(count) == count >= 1

MatchStageMore(count) == count > 2

\* {"$match": {"count": {"$gt": 1}}}
MatchStage(count) == count > 1

\* {"$group": {"_id": "$text", "duplicate_ids": {"$addToSet": "$_id"}, "count": {"$sum": 1}}}
GroupStage(s) ==
    {[text |-> t, duplicate_ids |-> IdsWithText(s, t),
      count |-> Cardinality(IdsWithText(s, t))] : t \in TextsOf(s)}

Pipeline(s) == {doc \in GroupStage(s) : MatchStage(doc.count)}

AfterPopAll(ids, first) == ids

AfterPopOne(ids, first) ==
    IF ids \ {first} = {} THEN {} ELSE {CHOOSE x \in ids \ {first} : TRUE}

\* duplicate_ids.pop(0): the identifiers left in the list, first being the
\* element $addToSet happened to put at index 0
AfterPop(ids, first) == ids \ {first}

StartupErrorSwallowed == "serving"

\* an exception leaves startup_db_client: the startup event fails
StartupErrorPc == "failed"

\* The cursor is open: the groups it will yield are fixed.  With no group the
\* loop body never runs and the handler returns.
Aggregate ==
    /\ pc = "startup"
    /\ pending' = Pipeline(store)
    /\ IF pending' = {}
       THEN /\ pc' = "serving"
            /\ runs' = runs + 1
            /\ cleanRuns' = cleanRuns + 1
            /\ cleanStore' = IF cleanRuns = 0 THEN store ELSE cleanStore
       ELSE /\ pc' = "collapsing"
            /\ UNCHANGED <<runs, cleanRuns, cleanStore>>
    /\ UNCHANGED <<store, nextId, resp, lastReq, startStore, deleteCalls,
                   served, startupError>>

\* The grouping query raises
AggregateFails ==
    /\ pc = "startup"
    /\ pc' = StartupErrorPc
    /\ startupError' = TRUE
    /\ UNCHANGED <<store, nextId, pending, resp, lastReq, startStore, cleanStore,
                   deleteCalls, runs, served, cleanRuns>>

\* One iteration of the loop: the cursor yields a group (in no specified
\* order), pop(0) drops whichever identifier $addToSet put first, delete_many
\* removes the rest.  After the last group the handler returns.
CollapseGroup ==
    /\ pc = "collapsing"
    /\ \E doc \in pending :
         \E first \in doc.duplicate_ids :
            /\ store' = Without(store, AfterPop(doc.duplicate_ids, first))
            /\ pending' = pending \ {doc}
            /\ deleteCalls' = deleteCalls + 1
            /\ IF pending' = {}
               THEN /\ pc' = "serving"
                    /\ runs' = runs + 1
                    /\ cleanRuns' = cleanRuns + 1
                    /\ cleanStore' = IF cleanRuns = 0 THEN store' ELSE cleanStore
               ELSE UNCHANGED <<pc, runs, cleanRuns, cleanStore>>
    /\ UNCHANGED <<nextId, resp, lastReq, startStore, served, startupError>>

\* delete_many raises
CollapseFails ==
    /\ pc = "collapsing"
    /\ pc' = StartupErrorPc
    /\ startupError' = TRUE
    /\ UNCHANGED <<store, nextId, pending, resp, lastReq, startStore, cleanStore,
                   deleteCalls, runs, served, cleanRuns>>

\* shutdown_db_client, then the process is started again
Restart ==
    /\ pc \in {"serving", "failed"}
    /\ runs < MaxRuns
    /\ pc' = "startup"
    /\ pending' = {}
    /\ startStore' = store
    /\ deleteCalls' = 0
    /\ served' = 0
    /\ startupError' = FALSE
    /\ resp' = NoResp
    /\ lastReq' = NoReq
    /\ UNCHANGED <<store, nextId, cleanStore, runs, cleanRuns>>

(***************************************************************************)
(* create_question, delete_question, get_questions                         *)
(***************************************************************************)
\* str(ObjectId)
IdStr(id) == <<"oid", id>>

InvalidId == -1

\* ObjectId(question_id): raises InvalidId unless the string is an ObjectId's
ObjectId(s) == IF s[1] = "oid" THEN s[2] ELSE InvalidId

\* question_id: the string of an ObjectId the store holds, held or has yet to
\* hand out, or a string that is no ObjectId's
IdStrings == {IdStr(n) : n \in 1..nextId} \cup {<<"bad", 0>>}

\* the application serves requests once the startup event has completed
Serving == pc = "serving" /\ served < MaxRequests

CreateQuestion ==
    /\ Serving
    /\ \E text \in CorpusTexts :
         /\ store' = Inserted(store, nextId, text)
         /\ resp' = [kind |-> "create", status |-> 200,
                     items |-> <<[id |-> IdStr(nextId), text |-> text,
                                  created_at |-> nextId]>>,
                     count |-> 0]
         /\ lastReq' = [NoReq EXCEPT !.text = text]
    /\ nextId' = nextId + 1
    /\ cleanRuns' = 0
    /\ cleanStore' = <<>>
    /\ served' = served + 1
    /\ UNCHANGED <<pc, pending, startStore, deleteCalls, runs, startupError>>

DeleteQuestion ==
    /\ Serving
    /\ \E qid \in IdStrings :
         /\ lastReq' = [NoReq EXCEPT !.id = qid]
         /\ IF ObjectId(qid) = InvalidId
            THEN /\ resp' = [NoResp EXCEPT !.kind = "delete", !.status = 500]
                 /\ UNCHANGED <<store, cleanStore, cleanRuns>>
            ELSE IF ObjectId(qid) \notin Ids(store)
            THEN /\ resp' = [NoResp EXCEPT !.kind = "delete", !.status = 404]
                 /\ UNCHANGED <<store, cleanStore, cleanRuns>>
            ELSE /\ resp' = [NoResp EXCEPT !.kind = "delete", !.status = 200]
                 /\ store' = Without(store, {ObjectId(qid)})
                 /\ cleanRuns' = 0
                 /\ cleanStore' = <<>>
    /\ served' = served + 1
    /\ UNCHANGED <<nextId, pc, pending, startStore, deleteCalls, runs,
                   startupError>>

GetQuestions ==
    /\ Serving
    /\ resp' = [NoResp EXCEPT !.kind = "count", !.status = 200, !.count = Len(store)]
    /\ lastReq' = NoReq
    /\ served' = served + 1
    /\ UNCHANGED <<store, nextId, pc, pending, startStore, cleanStore, deleteCalls,
                   runs, startupError, cleanRuns>>

(***************************************************************************)
(* check_similarity (/questions/check-similarity/)                         *)
(***************************************************************************)
QueryTexts == {AlphaBeta}

\* input_doc.similarity(existing_doc), in units of 0.00001
SimVals == {69999, 70000, 70001}

SemanticThreshold == 70000

IsSimilarGe(similarity) == similarity >= SemanticThreshold

\* similarity > 0.7
IsSimilar(similarity) == similarity > SemanticThreshold

\* round(similarity * 100, 2), in units of 0.01
Score(similarity) == (similarity + 5) \div 10

RECURSIVE SimilarQuestions(_, _)
\* the loop over find({}): sim[t] is what the embedder gives for the input
\* and the stored text t
SimilarQuestions(s, sim) ==
    IF s = <<>> THEN <<>>
    ELSE (IF IsSimilar(sim[Head(s).text])
          THEN <<[id |-> IdStr(Head(s).id), text |-> Head(s).text,
                  created_at |-> Head(s).created_at,
                  score |-> Score(sim[Head(s).text])]>>
          ELSE <<>>) \o SimilarQuestions(Tail(s), sim)

CheckSimilarity ==
    /\ Serving
    /\ \E text \in QueryTexts :
         \E sim \in [TextsOf(store) -> SimVals] :
            /\ resp' = [kind |-> "similarity", status |-> 200,
                        items |-> SimilarQuestions(store, sim),
                        count |-> Len(SimilarQuestions(store, sim))]
            /\ lastReq' = [NoReq EXCEPT !.text = text, !.sim = sim]
    /\ served' = served + 1
    /\ UNCHANGED <<store, nextId, pc, pending, startStore, cleanStore, deleteCalls,
                   runs, startupError, cleanRuns>>

(***************************************************************************)
(* check_similarity (/questions/check-similarity-2/)                       *)
(***************************************************************************)
\* textScore, in units of 0.1
ScoreVals == {20, 25, 30}

NoHit == -2      \* the text search does not return the document
NoScore == -1    \* the returned document has no "score" field

LexicalThreshold == 25

\* find({"$text": ...}, {"score": {"$meta": "textScore"}}): the documents the
\* search returns, each with the score the index gives its text
Found(s, score) ==
    [i \in 1..Len(SelectSeq(s, LAMBDA q : score[q.text] # NoHit)) |->
       [id |-> SelectSeq(s, LAMBDA q : score[q.text] # NoHit)[i].id,
        text |-> SelectSeq(s, LAMBDA q : score[q.text] # NoHit)[i].text,
        created_at |-> SelectSeq(s, LAMBDA q : score[q.text] # NoHit)[i].created_at,
        score |-> score[SelectSeq(s, LAMBDA q : score[q.text] # NoHit)[i].text]]]

RECURSIVE InsertDesc(_, _)
InsertDesc(sorted, doc) ==
    IF sorted = <<>> THEN <<doc>>
    ELSE IF Head(sorted).score >= doc.score
         THEN <<Head(sorted)>> \o InsertDesc(Tail(sorted), doc)
         ELSE <<doc>> \o sorted

RECURSIVE SortByScore(_)
\* .sort([("score", {"$meta": "textScore"})]): descending by score; documents
\* of equal score stay in the order the store holds them, a document without
\* a score sorts last
SortByScore(docs) ==
    IF docs = <<>> THEN <<>>
    ELSE InsertDesc(SortByScore(SubSeq(docs, 1, Len(docs) - 1)), docs[Len(docs)])

GetScoreDefaultHigh(doc) == IF doc.score = NoScore THEN 30 ELSE doc.score

\* doc.get("score", 0)
GetScore(doc) == IF doc.score = NoScore THEN 0 ELSE doc.score

RECURSIVE FilteredResults(_)
\* the loop over the cursor: keep a document iff doc.get("score", 0) > 2.5,
\* with its _id turned into a string
FilteredResults(hits) ==
    IF hits = <<>> THEN <<>>
    ELSE (IF GetScore(Head(hits)) > LexicalThreshold
          THEN <<[Head(hits) EXCEPT !.id = IdStr(Head(hits).id)]>>
          ELSE <<>>) \o FilteredResults(Tail(hits))

CheckSimilarity2 ==
    /\ Serving
    /\ \E text \in QueryTexts :
         \E score \in [TextsOf(store) -> ScoreVals \cup {NoHit, NoScore}] :
            /\ resp' = [kind |-> "lexical", status |-> 200,
                        items |-> FilteredResults(SortByScore(Found(store, score))),
                        count |-> Len(FilteredResults(SortByScore(Found(store, score))))]
            /\ lastReq' = [NoReq EXCEPT !.text = text,
                                        !.hits = SortByScore(Found(store, score))]
    /\ served' = served + 1
    /\ UNCHANGED <<store, nextId, pc, pending, startStore, cleanStore, deleteCalls,
                   runs, startupError, cleanRuns>>

(***************************************************************************)
(* check_words                                                             *)
(***************************************************************************)
\* str.split() with no argument splits on runs of whitespace
IsSpace(c) == c \in {" ", "\t", "\n"}

\* str.lower(), on the characters the texts use
Lower(c) ==
    CASE c = "A" -> "a"
      [] c = "B" -> "b"
      [] c = "H" -> "h"
      [] c = "W" -> "w"
      [] OTHER -> c

LowerWord(w) == [i \in 1..Len(w) |-> Lower(w[i])]

RECURSIVE SplitFrom(_, _)
\* text.split(): cur is the word being read
SplitFrom(s, cur) ==
    IF s = <<>> THEN (IF cur = <<>> THEN <<>> ELSE <<cur>>)
    ELSE IF IsSpace(Head(s))
         THEN (IF cur = <<>> THEN <<>> ELSE <<cur>>) \o SplitFrom(Tail(s), <<>>)
         ELSE SplitFrom(Tail(s), Append(cur, Head(s)))

Split(s) == SplitFrom(s, <<>>)

\* set(word.lower() for word in text.split())
WordSet(text) == {LowerWord(w) : w \in Range(Split(text))}

RECURSIVE MatchCountPerWord(_, _)
MatchCountPerWord(s, input_words) ==
    IF s = <<>> THEN 0
    ELSE Cardinality(input_words \cap WordSet(Head(s).text))
         + MatchCountPerWord(Tail(s), input_words)

RECURSIVE MatchCount(_, _)
\* the loop over find({}): one more for a question that shares a word
MatchCount(s, input_words) ==
    IF s = <<>> THEN 0
    ELSE (IF input_words \cap WordSet(Head(s).text) # {} THEN 1 ELSE 0)
         + MatchCount(Tail(s), input_words)

CheckWords ==
    /\ Serving
    /\ \E text \in Texts :
         /\ resp' = [NoResp EXCEPT !.kind = "words", !.status = 200,
                                   !.count = MatchCount(store, WordSet(text))]
         /\ lastReq' = [NoReq EXCEPT !.text = text]
    /\ served' = served + 1
    /\ UNCHANGED <<store, nextId, pc, pending, startStore, cleanStore, deleteCalls,
                   runs, startupError, cleanRuns>>


(***************************************************************************)
(* Specification                                                           *)
(***************************************************************************)
Init ==
    /\ \E texts \in SeqsUpTo(CorpusTexts, MaxStore) :
         /\ store = Corpus(texts)
         /\ nextId = Len(texts) + 1
    /\ pc = "startup"
    /\ pending = {}
    /\ resp = NoResp
    /\ lastReq = NoReq
    /\ startStore = store
    /\ cleanStore = <<>>
    /\ deleteCalls = 0
    /\ runs = 0
    /\ served = 0
    /\ startupError = FALSE
    /\ cleanRuns = 0

Next ==
    \/ Aggregate
    \/ AggregateFails
    \/ CollapseGroup
    \/ CollapseFails
    \/ Restart
    \/ CreateQuestion
    \/ DeleteQuestion
    \/ GetQuestions
    \/ CheckSimilarity
    \/ CheckSimilarity2
    \/ CheckWords

Spec == Init /\ [][Next]_vars

Injective(f) == \A i, j \in DOMAIN f : f[i] = f[j] => i = j

\* The matchers on their own: a process that has just started, over any small
\* corpus the collapser can have left
InitMatch ==
    /\ \E texts \in {f \in SeqsUpTo(Texts, MaxScan) : Injective(f)} :
         /\ store = Corpus(texts)
         /\ nextId = Len(texts) + 1
    /\ pc = "serving"
    /\ pending = {}
    /\ resp = NoResp
    /\ lastReq = NoReq
    /\ startStore = store
    /\ cleanStore = store
    /\ deleteCalls = 0
    /\ runs = 1
    /\ served = 0
    /\ startupError = FALSE
    /\ cleanRuns = 1

NextMatch ==
    \/ CheckSimilarity
    \/ CheckSimilarity2
    \/ CheckWords

SpecMatch == InitMatch /\ [][NextMatch]_vars

(***************************************************************************)
(* Properties                                                              *)
(***************************************************************************)
\* The startup handler has returned and no request has been handled yet
JustStarted == pc = "serving" /\ served = 0

NoTwoShareText(s) == \A i, j \in 1..Len(s) : s[i].text = s[j].text => i = j

Min(S) == CHOOSE x \in S : \A y \in S : x <= y

DuplicatedTexts(s) ==
    {t \in TextsOf(s) : \E i, j \in 1..Len(s) : i # j /\ s[i].text = t /\ s[j].text = t}

\* C1: once startup_db_client has run to completion, no two stored questions
\* have the same text.
C1_NoDuplicatesAfterStartup == JustStarted => NoTwoShareText(store)

C1_Witness ==
    /\ JustStarted
    /\ Len(startStore) = 4
    /\ Len(store) = 2
    /\ NoTwoShareText(store)

\* C2: of every group of questions with equal text, the first-inserted record
\* (lowest id, earliest created_at) is the one the collapser leaves.
C2_FirstInsertedSurvives ==
    JustStarted =>
        \A t \in TextsOf(startStore) : Min(IdsWithText(startStore, t)) \in Ids(store)

\* C3: a collapser run that follows a completed run, with no request changing
\* the collection in between, deletes nothing: the collection stays what the
\* first run left.
C3_Idempotent == cleanRuns >= 1 => store = cleanStore

C3_Witness ==
    /\ JustStarted
    /\ cleanRuns = 2
    /\ store = cleanStore
    /\ Len(store) >= 1
    /\ Len(store) < nextId - 1

\* C4: every text present before the run is present after it, in exactly one
\* record, and a record whose text was unique before the run is still stored,
\* unchanged.
C4_TextsAndSingletonsKept ==
    JustStarted =>
        /\ TextsOf(store) = TextsOf(startStore)
        /\ \A t \in TextsOf(startStore) : Cardinality(IdsWithText(store, t)) = 1
        /\ \A i \in 1..Len(startStore) :
              startStore[i].text \notin DuplicatedTexts(startStore)
                  => startStore[i] \in Range(store)

C4_Witness ==
    /\ JustStarted
    /\ DuplicatedTexts(startStore) # {}
    /\ \E i \in 1..Len(startStore) :
          /\ startStore[i].text \notin DuplicatedTexts(startStore)
          /\ startStore[i] \in Range(store)
    /\ Len(store) < Len(startStore)

\* C5: a request handler runs only in a process whose collapser has run to
\* completion; a startup in which the grouping query or a deletion raised
\* ends failed and handles no request.
C5_NoRequestBeforeCollapse ==
    /\ (served > 0 \/ resp.kind # "none") =>
           pc = "serving" /\ ~startupError /\ pending = {}
    /\ startupError => pc = "failed" /\ served = 0 /\ resp = NoResp

C5_Witness ==
    /\ pc = "failed"
    /\ startupError
    /\ pending # {}
    /\ Len(store) < Len(startStore)
    /\ served = 0

\* The k-th element of items is built from the k-th record of s that passes
Selects(items, s, Passes(_)) ==
    /\ Len(items) = Cardinality({i \in 1..Len(s) : Passes(s[i])})
    /\ \A k \in 1..Len(items) :
          \E i \in 1..Len(s) :
             /\ Passes(s[i])
             /\ Cardinality({j \in 1..(i - 1) : Passes(s[j])}) = k - 1
             /\ items[k].id = IdStr(s[i].id)
             /\ items[k].text = s[i].text
             /\ items[k].created_at = s[i].created_at

\* C6: check-similarity returns exactly the stored questions whose similarity
\* to the input is above 0.7 (a similarity of exactly 0.7 is left out), in
\* the order the store enumerates them, and counts them; an empty corpus
\* gives an empty list and 0.
C6_SemanticStrictThreshold ==
    resp.kind = "similarity" =>
        /\ Selects(resp.items, store, LAMBDA q : lastReq.sim[q.text] > 70000)
        /\ resp.count = Len(resp.items)
        /\ \A k \in 1..Len(resp.items) : lastReq.sim[resp.items[k].text] # 70000
        /\ store = <<>> => resp.items = <<>> /\ resp.count = 0

C6_Witness ==
    /\ resp.kind = "similarity"
    /\ Len(store) = 2
    /\ lastReq.sim[store[1].text] = 70000
    /\ lastReq.sim[store[2].text] = 70001
    /\ resp.count = 1
    /\ resp.items[1].id = IdStr(store[2].id)

UpperToLower == {<<"A", "a">>, <<"B", "b">>, <<"H", "h">>, <<"W", "w">>}

Fold(c) ==
    IF \E p \in UpperToLower : p[1] = c
    THEN (CHOOSE p \in UpperToLower : p[1] = c)[2]
    ELSE c

Whitespace == {" ", "\t", "\n"}

Tokens(s) ==
    {[k \in 1..(j - i + 1) |-> Fold(s[i + k - 1])] :
        <<i, j>> \in {p \in (1..Len(s)) \X (1..Len(s)) :
                        /\ p[1] <= p[2]
                        /\ \A k \in p[1]..p[2] : s[k] \notin Whitespace
                        /\ p[1] = 1 \/ s[p[1] - 1] \in Whitespace
                        /\ p[2] = Len(s) \/ s[p[2] + 1] \in Whitespace}}

\* C8: check_words counts the stored questions that share at least one
\* lower-cased whitespace-delimited word with the input, each question once;
\* the count lies between 0 and the corpus size and is 0 for an input
\* without words.
C8_WordOverlapCount ==
    resp.kind = "words" =>
        /\ resp.count = Cardinality({i \in 1..Len(store) :
                            Tokens(store[i].text) \cap Tokens(lastReq.text) # {}})
        /\ resp.count >= 0
        /\ resp.count <= Len(store)
        /\ Tokens(lastReq.text) = {} => resp.count = 0

C8_Witness ==
    /\ resp.kind = "words"
    /\ lastReq.text = AlphaBeta
    /\ Len(store) = 2
    /\ store[1].text = BetaGamma
    /\ store[2].text = GammaDelta
    /\ resp.count = 1

\* C9: a delete request whose identifier is not the identifier of a stored
\* question is answered 404 and leaves the collection as it is; one whose
\* identifier is stored removes that record and is answered 200.
C9_DeleteNotFound ==
    [][(resp'.kind = "delete" /\ served' = served + 1) =>
          IF \E i \in 1..Len(store) : IdStr(store[i].id) = lastReq'.id
          THEN /\ resp'.status = 200
               /\ Len(store') = Len(store) - 1
               /\ \A i \in 1..Len(store) :
                     IdStr(store[i].id) # lastReq'.id => store[i] \in Range(store')
          ELSE /\ resp'.status = 404
               /\ store' = store]_vars

\* Some group the run started with is collapsed while another is not
PartlyCollapsed ==
    /\ pc = "collapsing"
    /\ \E t \in DuplicatedTexts(startStore) : t \notin DuplicatedTexts(store)
    /\ DuplicatedTexts(store) # {}

\* C10 as stated: one run issues a single delete_many for all groups, and the
\* collection is never seen with some groups collapsed and others not.
C10_SingleBulkDeletion == deleteCalls <= 1 /\ ~PartlyCollapsed

\* C10 as amended: a run issues one delete_many per duplicate group, each
\* removing all but one record of that group; the texts still duplicated are
\* those of the groups the cursor has yet to yield.
C10_OneDeletionPerGroup ==
    pc \in {"collapsing", "serving"} /\ served = 0 =>
        /\ deleteCalls + Cardinality(pending)
               = Cardinality(DuplicatedTexts(startStore))
        /\ DuplicatedTexts(store) = {doc.text : doc \in pending}

C10_Witness ==
    /\ JustStarted
    /\ deleteCalls = 2
    /\ Cardinality(DuplicatedTexts(startStore)) = 2
    /\ NoTwoShareText(store)

====
